---- MODULE Spec2Model ----
(***************************************************************************)
(* Model of the recording hook useRecording (src/src/hooks/useRecording.ts).*)
(*                                                                         *)
(* The hook keeps React state (isRecording, isPaused, mediaRecorder,       *)
(* transcriptionSegments, isTranscribing, speechRecognition,               *)
(* recordingStartTime).  Every call of startRecording that passes the      *)
(* credential check creates one "session": the pending async call, the     *)
(* media stream, the MediaRecorder, the SpeechRecognition object and the   *)
(* recorder's onstop handler.  The closures created inside startRecording  *)
(* read the state values of the render in which startRecording was called  *)
(* (apiKey, recordingStartTime); the state setters always write the live   *)
(* state.  The functions the UI calls (startRecording, stopRecording,      *)
(* pauseRecording, resumeRecording) are those of the latest render.        *)
(***************************************************************************)
EXTENDS Integers, Sequences, FiniteSets, TLC

\* ---------------------------------------------------------------- bounds
MaxSessions == 2     \* startRecording calls that pass the credential check
MaxTicks == 2        \* clock steps in a behaviour
TickMs == 50         \* milliseconds per clock step
MaxResults == 2      \* results carried by one live-recognition event

\* ------------------------------------------------------------- constants
Null == 0                 \* null (a held object or a timestamp that is absent)
MinDurationMs == 100      \* shortest recording that is transcribed

NoKey == ""
Keys == {NoKey, "sk"}

\* Session ids.  Spec starts at most MaxSessions sessions; the last id is used
\* by SpecOverlap, where one more call is needed for two requests to overlap.
Ids == 1..(MaxSessions + 1)

\* ----------------------------------------------------------------- toasts
ToastNoKey ==
    [title |-> "Erro", description |-> "insira sua chave da API", variant |-> "destructive"]
ToastMic ==
    [title |-> "Erro", description |-> "Nao foi possivel acessar o microfone", variant |-> "destructive"]
ToastShort ==
    [title |-> "Aviso", description |-> "A gravacao e muito curta", variant |-> "destructive"]
ToastDone ==
    [title |-> "Transcricao concluida", description |-> "A ata da reuniao esta pronta", variant |-> "default"]
ToastPaused ==
    [title |-> "Gravacao pausada", description |-> "A gravacao foi pausada", variant |-> "default"]
ToastResumed ==
    [title |-> "Gravacao retomada", description |-> "A gravacao foi retomada", variant |-> "default"]
ToastNewParticipant(name) ==
    [title |-> "Novo participante identificado", description |-> name, variant |-> "default"]
ToastTranscriptionError(message) ==
    [title |-> "Erro na transcricao", description |-> message, variant |-> "destructive"]

\* Messages of the errors the transcription handler can catch.
GenericFailure == "Falha na transcricao"
ServerMessage == "server: error.message"
NetworkMessage == "Failed to fetch"
ParseMessage == "Unexpected token in JSON"
MappingMessage == "mapping failed"

VARIABLES
    apiKey,                 \* the hook's parameter in the latest render
    speechSupported,        \* the platform has a SpeechRecognition constructor
    now,                    \* Date.now()
    isRecording,
    isPaused,
    mediaRecorder,          \* id of the held recorder, or Null
    speechRecognition,      \* id of the held recognition instance, or Null
    recordingStartTime,     \* timestamp, or Null
    isTranscribing,
    transcriptionSegments,
    profiles,               \* voiceIdentificationService.profiles
    sessions,               \* per startRecording call: its objects and handlers
    nextId,                 \* id of the next session
    called,                 \* the function of the hook the last step called, or "none"
    toasts                  \* notifications emitted by the last step

vars == <<apiKey, speechSupported, now, isRecording, isPaused, mediaRecorder,
          speechRecognition, recordingStartTime, isTranscribing,
          transcriptionSegments, profiles, sessions, nextId, called, toasts>>

hookState == <<isRecording, isPaused, mediaRecorder, speechRecognition,
               recordingStartTime, isTranscribing, transcriptionSegments>>

\* A session that no startRecording call has created yet.
NoSession ==
    [call       |-> "none",      \* none | prompt | mic | returned
     fromIdle   |-> FALSE,       \* startRecording was called with no recording in progress
     capStart   |-> Null,        \* recordingStartTime as the closure captured it
     capKey     |-> NoKey,       \* apiKey as the closure captured it
     stream     |-> "none",      \* none | live | stopped (the tracks of the stream)
     recorder   |-> "none",      \* none | inactive | recording | paused
     recognition|-> "none",      \* none | created | running | stopped
     startedAt  |-> Null,        \* Date.now() when recorder.start ran (until onstop runs)
     stoppedAt  |-> Null,        \* Date.now() when recorder.stop ran (until onstop runs)
     onstop     |-> "idle",      \* idle | queued | fetch | json | done
     responseOk |-> FALSE,       \* response.ok of the settled fetch
     overtaken  |-> FALSE,       \* stopRecording stopped a recorder while this call was pending
     stopOrder  |-> 0]           \* this recorder's stop was the stopOrder-th stop (0: not stopped)

Init ==
    /\ apiKey \in Keys
    /\ speechSupported \in BOOLEAN
    /\ now = TickMs
    /\ isRecording = FALSE
    /\ isPaused = FALSE
    /\ mediaRecorder = Null
    /\ speechRecognition = Null
    /\ recordingStartTime = Null
    /\ isTranscribing = FALSE
    /\ transcriptionSegments = <<>>
    /\ profiles = <<>>
    /\ sessions = [i \in Ids |-> NoSession]
    /\ nextId = 1
    /\ called = "none"
    /\ toasts = <<>>

\* ------------------------------------------------------------ environment
Tick ==
    /\ called' = "none"
    /\ now < TickMs * (MaxTicks + 1)
    /\ now' = now + TickMs
    /\ toasts' = <<>>
    /\ UNCHANGED <<apiKey, speechSupported, hookState, profiles, sessions, nextId>>

\* The component re-renders the hook with another credential.
SetApiKey(k) ==
    /\ called' = "none"
    /\ k # apiKey
    /\ apiKey' = k
    /\ toasts' = <<>>
    /\ UNCHANGED <<speechSupported, now, hookState, profiles, sessions, nextId>>

\* --------------------------------------------------------- startRecording
\* A session whose captured values and times nothing reads again: the call
\* failed before it created the handlers, or the handler has read them.
Forget(session) ==
    [session EXCEPT !.fromIdle = FALSE, !.capStart = Null, !.startedAt = Null,
                    !.stoppedAt = Null, !.responseOk = FALSE, !.overtaken = FALSE]

\* voiceIdentificationService.clear()
Clear(ps) == <<>>

\* startRecording without the return that follows the credential toast.
StartRecordingNoReturn(identificationEnabled) ==
    /\ called' = "startRecording"
    /\ nextId <= MaxSessions
    /\ toasts' = IF apiKey = NoKey THEN <<ToastNoKey>> ELSE <<>>
    /\ profiles' = IF identificationEnabled THEN Clear(profiles) ELSE profiles
    /\ sessions' = [sessions EXCEPT ![nextId] =
           [@ EXCEPT !.call = IF identificationEnabled THEN "prompt" ELSE "mic",
                     !.fromIdle = (~isRecording /\ mediaRecorder = Null),
                     !.capStart = recordingStartTime,
                     !.capKey = apiKey]]
    /\ nextId' = nextId + 1
    /\ UNCHANGED <<apiKey, speechSupported, now, hookState>>

\* startRecording that clears the registry whatever identificationEnabled is.
StartRecordingAlwaysClears(identificationEnabled) ==
    /\ called' = "startRecording"
    /\ IF apiKey = NoKey
       THEN /\ toasts' = <<ToastNoKey>>
            /\ UNCHANGED <<profiles, sessions, nextId>>
       ELSE /\ nextId <= MaxSessions
            /\ toasts' = <<>>
            /\ profiles' = Clear(profiles)
            /\ sessions' = [sessions EXCEPT ![nextId] =
                   [@ EXCEPT !.call = IF identificationEnabled THEN "prompt" ELSE "mic",
                             !.fromIdle = (~isRecording /\ mediaRecorder = Null),
                             !.capStart = recordingStartTime,
                             !.capKey = apiKey]]
            /\ nextId' = nextId + 1
    /\ UNCHANGED <<apiKey, speechSupported, now, hookState>>

\* The synchronous part of startRecording, up to its first await; at most
\* `limit` calls pass the credential check.
StartRecordingWithin(limit, identificationEnabled) ==
    /\ called' = "startRecording"
    /\ IF apiKey = NoKey
       THEN /\ toasts' = <<ToastNoKey>>
            /\ UNCHANGED <<profiles, sessions, nextId>>
       ELSE /\ nextId <= limit
            /\ toasts' = <<>>
            /\ profiles' = IF identificationEnabled THEN Clear(profiles) ELSE profiles
            /\ sessions' = [sessions EXCEPT ![nextId] =
                   [@ EXCEPT !.call = IF identificationEnabled THEN "prompt" ELSE "mic",
                             !.fromIdle = (~isRecording /\ mediaRecorder = Null),
                             !.capStart = recordingStartTime,
                             !.capKey = apiKey]]
            /\ nextId' = nextId + 1
    /\ UNCHANGED <<apiKey, speechSupported, now, hookState>>

StartRecording(identificationEnabled) ==
    StartRecordingWithin(MaxSessions, identificationEnabled)

\* await playIdentificationPrompt() settles; on success getUserMedia is called.
PromptSettles(i, played) ==
    /\ called' = "none"
    /\ sessions[i].call = "prompt"
    /\ IF played
       THEN /\ sessions' = [sessions EXCEPT ![i].call = "mic"]
            /\ toasts' = <<>>
       ELSE /\ sessions' = [sessions EXCEPT ![i] = [Forget(@) EXCEPT !.call = "returned"]]
            /\ toasts' = <<ToastMic>>
    /\ UNCHANGED <<apiKey, speechSupported, now, hookState, profiles, nextId>>

\* The rest of startRecording with a catch block that also resets the session.
MicSettlesResetsOnError(i, granted) ==
    /\ called' = "none"
    /\ sessions[i].call = "mic"
    /\ UNCHANGED <<apiKey, speechSupported, now, profiles, nextId,
                   speechRecognition, isTranscribing, transcriptionSegments>>
    /\ IF ~granted \/ ~speechSupported
       THEN /\ sessions' = [sessions EXCEPT ![i] =
                   [Forget(@) EXCEPT !.call = "returned",
                                     !.stream = IF granted THEN "live" ELSE "none",
                                     !.recorder = IF granted THEN "inactive" ELSE "none"]]
            /\ toasts' = <<ToastMic>>
            /\ isRecording' = FALSE
            /\ isPaused' = FALSE
            /\ mediaRecorder' = Null
            /\ recordingStartTime' = Null
       ELSE /\ sessions' = [sessions EXCEPT ![i] =
                   [@ EXCEPT !.call = "returned", !.stream = "live",
                             !.recorder = "recording", !.recognition = "created",
                             !.startedAt = now, !.overtaken = FALSE]]
            /\ toasts' = <<>>
            /\ recordingStartTime' = now
            /\ mediaRecorder' = i
            /\ isRecording' = TRUE
            /\ isPaused' = FALSE

\* await getUserMedia() settles; the rest of startRecording runs.
MicSettles(i, granted) ==
    /\ called' = "none"
    /\ sessions[i].call = "mic"
    /\ UNCHANGED <<apiKey, speechSupported, now, profiles, nextId,
                   speechRecognition, isTranscribing, transcriptionSegments>>
    /\ IF ~granted
       THEN \* getUserMedia rejected
            /\ sessions' = [sessions EXCEPT ![i] = [Forget(@) EXCEPT !.call = "returned"]]
            /\ toasts' = <<ToastMic>>
            /\ UNCHANGED <<isRecording, isPaused, mediaRecorder, recordingStartTime>>
       ELSE IF ~speechSupported
       THEN \* new (undefined)() throws after the stream and the recorder exist
            /\ sessions' = [sessions EXCEPT ![i] =
                   [Forget(@) EXCEPT !.call = "returned", !.stream = "live",
                                     !.recorder = "inactive"]]
            /\ toasts' = <<ToastMic>>
            /\ UNCHANGED <<isRecording, isPaused, mediaRecorder, recordingStartTime>>
       ELSE /\ sessions' = [sessions EXCEPT ![i] =
                   [@ EXCEPT !.call = "returned", !.stream = "live",
                             !.recorder = "recording", !.recognition = "created",
                             !.startedAt = now, !.overtaken = FALSE]]
            /\ toasts' = <<>>
            /\ recordingStartTime' = now
            /\ mediaRecorder' = i
            /\ isRecording' = TRUE
            /\ isPaused' = FALSE

\* ----------------------------------------------- stop / pause / resume
\* The number of recorders stopped so far.
Stops == Cardinality({i \in Ids : sessions[i].stopOrder > 0})

\* A session other than the held one when stopRecording stops the held recorder:
\* a pending call is marked as overtaken by the stop.
Overtake(session) ==
    IF session.call \in {"prompt", "mic"} THEN [session EXCEPT !.overtaken = TRUE]
    ELSE session

\* stopRecording without the line that stops the tracks of the stream.
StopRecordingKeepsTracks ==
    /\ called' = "stopRecording"
    /\ toasts' = <<>>
    /\ UNCHANGED <<apiKey, speechSupported, now, profiles, nextId,
                   isTranscribing, transcriptionSegments>>
    /\ IF mediaRecorder # Null
       THEN /\ sessions' = [i \in Ids |->
                   IF i = mediaRecorder
                   THEN [sessions[i] EXCEPT !.recorder = "inactive",
                                            !.onstop = "queued", !.stoppedAt = now,
                                            !.stopOrder = Stops + 1]
                   ELSE Overtake(sessions[i])]
            /\ isRecording' = FALSE
            /\ isPaused' = FALSE
            /\ mediaRecorder' = Null
            /\ speechRecognition' = Null
            /\ recordingStartTime' = Null
       ELSE UNCHANGED <<sessions, isRecording, isPaused, mediaRecorder,
                        speechRecognition, recordingStartTime>>

\* stopRecording that first aborts the transcription requests in flight.
StopRecordingAborts ==
    /\ called' = "stopRecording"
    /\ toasts' = <<>>
    /\ UNCHANGED <<apiKey, speechSupported, now, profiles, nextId,
                   isTranscribing, transcriptionSegments>>
    /\ LET Abort(session) ==
               IF session.onstop \in {"fetch", "json"}
               THEN [session EXCEPT !.onstop = "done", !.responseOk = FALSE]
               ELSE session
       IN
       IF mediaRecorder # Null
       THEN /\ sessions' = [i \in Ids |->
                   IF i = mediaRecorder
                   THEN [sessions[i] EXCEPT !.recorder = "inactive",
                                            !.onstop = "queued", !.stoppedAt = now,
                                            !.stopOrder = Stops + 1,
                                            !.stream = "stopped"]
                   ELSE Abort(Overtake(sessions[i]))]
            /\ isRecording' = FALSE
            /\ isPaused' = FALSE
            /\ mediaRecorder' = Null
            /\ speechRecognition' = Null
            /\ recordingStartTime' = Null
       ELSE /\ sessions' = [i \in Ids |-> Abort(sessions[i])]
            /\ UNCHANGED <<isRecording, isPaused, mediaRecorder,
                           speechRecognition, recordingStartTime>>

StopRecording ==
    /\ called' = "stopRecording"
    /\ toasts' = <<>>
    /\ UNCHANGED <<apiKey, speechSupported, now, profiles, nextId,
                   isTranscribing, transcriptionSegments>>
    /\ IF mediaRecorder # Null
       THEN /\ sessions' = [i \in Ids |->
                   IF i = mediaRecorder
                   THEN [sessions[i] EXCEPT
                            !.recorder = "inactive",   \* mediaRecorder.stop()
                            !.onstop = "queued",       \* the stop event is queued
                            !.stoppedAt = now,
                            !.stopOrder = Stops + 1,
                            !.stream = "stopped",      \* every track is stopped
                            !.recognition =
                                IF speechRecognition = i THEN "stopped" ELSE @]
                   ELSE IF i = speechRecognition
                   THEN [Overtake(sessions[i]) EXCEPT !.recognition = "stopped"]
                   ELSE Overtake(sessions[i])]
            /\ isRecording' = FALSE
            /\ isPaused' = FALSE
            /\ mediaRecorder' = Null
            /\ speechRecognition' = Null
            /\ recordingStartTime' = Null
       ELSE UNCHANGED <<sessions, isRecording, isPaused, mediaRecorder,
                        speechRecognition, recordingStartTime>>

\* pauseRecording without the test of the recorder's state.
PauseRecordingAnyState ==
    /\ called' = "pauseRecording"
    /\ UNCHANGED <<apiKey, speechSupported, now, profiles, nextId, isRecording,
                   mediaRecorder, speechRecognition, recordingStartTime,
                   isTranscribing, transcriptionSegments>>
    /\ IF mediaRecorder # Null
       THEN /\ sessions' = [sessions EXCEPT ![mediaRecorder].recorder = "paused"]
            /\ isPaused' = TRUE
            /\ toasts' = <<ToastPaused>>
       ELSE /\ toasts' = <<>>
            /\ UNCHANGED <<sessions, isPaused>>

PauseRecording ==
    /\ called' = "pauseRecording"
    /\ UNCHANGED <<apiKey, speechSupported, now, profiles, nextId, isRecording,
                   mediaRecorder, speechRecognition, recordingStartTime,
                   isTranscribing, transcriptionSegments>>
    /\ IF mediaRecorder # Null /\ sessions[mediaRecorder].recorder = "recording"
       THEN /\ sessions' = [i \in Ids |->
                   IF i = mediaRecorder
                   THEN [sessions[i] EXCEPT
                            !.recorder = "paused",
                            !.recognition =
                                IF speechRecognition = i THEN "stopped" ELSE @]
                   ELSE IF i = speechRecognition
                   THEN [sessions[i] EXCEPT !.recognition = "stopped"]
                   ELSE sessions[i]]
            /\ isPaused' = TRUE
            /\ toasts' = <<ToastPaused>>
       ELSE /\ toasts' = <<>>
            /\ UNCHANGED <<sessions, isPaused>>

\* resumeRecording that resumes the recorder and leaves isPaused alone.
ResumeRecordingKeepsPaused ==
    /\ called' = "resumeRecording"
    /\ UNCHANGED <<apiKey, speechSupported, now, profiles, nextId, isRecording,
                   mediaRecorder, speechRecognition, recordingStartTime,
                   isTranscribing, transcriptionSegments, isPaused>>
    /\ IF mediaRecorder # Null /\ sessions[mediaRecorder].recorder = "paused"
       THEN /\ sessions' = [sessions EXCEPT ![mediaRecorder].recorder = "recording"]
            /\ toasts' = <<ToastResumed>>
       ELSE /\ toasts' = <<>>
            /\ UNCHANGED sessions

ResumeRecording ==
    /\ called' = "resumeRecording"
    /\ UNCHANGED <<apiKey, speechSupported, now, profiles, nextId, isRecording,
                   mediaRecorder, speechRecognition, recordingStartTime,
                   isTranscribing, transcriptionSegments>>
    /\ IF mediaRecorder # Null /\ sessions[mediaRecorder].recorder = "paused"
       THEN /\ sessions' = [i \in Ids |->
                   IF i = mediaRecorder
                   THEN [sessions[i] EXCEPT
                            !.recorder = "recording",
                            !.recognition =
                                IF speechRecognition = i THEN "running" ELSE @]
                   ELSE IF i = speechRecognition
                   THEN [sessions[i] EXCEPT !.recognition = "running"]
                   ELSE sessions[i]]
            /\ isPaused' = FALSE
            /\ toasts' = <<ToastResumed>>
       ELSE /\ toasts' = <<>>
            /\ UNCHANGED <<sessions, isPaused>>

\* ------------------------------------------------------- recorder.onstop
\* The check of the recording's length, on the captured recordingStartTime.
TooShort(capStart, t) == capStart = Null \/ t - capStart < MinDurationMs

\* The session once its stop event has been handled: the handler is at `pc`.
Handled(session, pc) == [Forget(session) EXCEPT !.onstop = pc]

\* The stop event of recorder i is delivered: the handler runs up to its fetch.
OnStop(i) ==
    /\ called' = "none"
    /\ sessions[i].onstop = "queued"
    /\ UNCHANGED <<apiKey, speechSupported, now, profiles, nextId, isRecording,
                   isPaused, mediaRecorder, speechRecognition, recordingStartTime,
                   transcriptionSegments>>
    /\ IF TooShort(sessions[i].capStart, now)
       THEN /\ toasts' = <<ToastShort>>
            /\ sessions' = [sessions EXCEPT ![i] = Handled(@, "done")]
            /\ UNCHANGED isTranscribing
       ELSE /\ toasts' = <<>>
            /\ isTranscribing' = TRUE
            /\ sessions' = [sessions EXCEPT ![i] = Handled(@, "fetch")]

\* The catch block without the finally block after it.
TranscriptionFailedNoFinally(i, message) ==
    /\ toasts' = <<ToastTranscriptionError(message)>>
    /\ sessions' = [sessions EXCEPT ![i] = Handled(@, "done")]
    /\ UNCHANGED <<isTranscribing, transcriptionSegments>>

\* catch (error) {...} finally { setIsTranscribing(false) }
TranscriptionFailed(i, message) ==
    /\ toasts' = <<ToastTranscriptionError(message)>>
    /\ isTranscribing' = FALSE
    /\ sessions' = [sessions EXCEPT ![i] = Handled(@, "done")]
    /\ UNCHANGED transcriptionSegments

\* await fetch(...) settles: a response with a status, or a network failure.
FetchOutcomes == {"ok", "status", "network"}

FetchSettles(i, outcome) ==
    /\ called' = "none"
    /\ sessions[i].onstop = "fetch"
    /\ UNCHANGED <<apiKey, speechSupported, now, profiles, nextId, isRecording,
                   isPaused, mediaRecorder, speechRecognition, recordingStartTime>>
    /\ IF outcome = "network"
       THEN TranscriptionFailed(i, NetworkMessage)
       ELSE /\ sessions' = [sessions EXCEPT ![i].onstop = "json",
                                            ![i].responseOk = (outcome = "ok")]
            /\ toasts' = <<>>
            /\ UNCHANGED <<isTranscribing, transcriptionSegments>>

\* A response body: whether it parses as JSON, its error.message ("" when it
\* has none) and its segments.  The text of a segment is abstracted by the
\* number of the recording it transcribes.
Bodies(i) ==
    [parses : BOOLEAN, message : {"", ServerMessage},
     segments : {<<>>, <<[start |-> 0, end |-> 1, text |-> i]>>}]

\* errorData.error?.message || 'Falha na transcricao'
ErrorMessage(errorData) ==
    IF errorData.message # "" THEN errorData.message ELSE GenericFailure

\* processTranscriptionResult(result)
ProcessTranscriptionResult(result) ==
    [k \in 1..Len(result.segments) |->
        [text |-> result.segments[k].text, start |-> result.segments[k].start,
         end |-> result.segments[k].end, speaker |-> "unknown"]]

\* await response.json() settles and the handler runs to its end.
JsonSettles(i, body, mappingThrows) ==
    /\ called' = "none"
    /\ sessions[i].onstop = "json"
    /\ UNCHANGED <<apiKey, speechSupported, now, profiles, nextId, isRecording,
                   isPaused, mediaRecorder, speechRecognition, recordingStartTime>>
    /\ IF ~body.parses
       THEN TranscriptionFailed(i, ParseMessage)
       ELSE IF ~sessions[i].responseOk
       THEN TranscriptionFailed(i, ErrorMessage(body))
       ELSE IF mappingThrows
       THEN TranscriptionFailed(i, MappingMessage)
       ELSE /\ transcriptionSegments' = ProcessTranscriptionResult(body)
            /\ toasts' = <<ToastDone>>
            /\ isTranscribing' = FALSE
            /\ sessions' = [sessions EXCEPT ![i] = Handled(@, "done")]

\* -------------------------------------------------- recognition.onresult
Transcripts == {"meu nome e Ana", "meu nome e Bia", "bom dia"}

\* handleNameRecognition(transcript): the name spoken, or "" for none.
HandleNameRecognition(transcript) ==
    CASE transcript = "meu nome e Ana" -> "Ana"
      [] transcript = "meu nome e Bia" -> "Bia"
      [] OTHER -> ""

\* voiceIdentificationService.addProfile(name, new Float32Array(0))
AddProfile(ps, name) == Append(ps, [name |-> name, embedding |-> <<>>])

\* profiles.find(p => p.name === name)
Registered(ps, name) == \E k \in 1..Len(ps) : ps[k].name = name

\* The body of the loop without the search of the registry.
OnResultStepNoFind(acc, transcript) ==
    LET name == HandleNameRecognition(transcript) IN
    IF name # ""
    THEN [profiles |-> AddProfile(acc.profiles, name),
          toasts |-> Append(acc.toasts, ToastNewParticipant(name))]
    ELSE acc

\* The body of the handler's loop for one result.
OnResultStep(acc, transcript) ==
    LET name == HandleNameRecognition(transcript) IN
    IF name # "" /\ ~Registered(acc.profiles, name)
    THEN [profiles |-> AddProfile(acc.profiles, name),
          toasts |-> Append(acc.toasts, ToastNewParticipant(name))]
    ELSE acc

\* for (let i = event.resultIndex; i < event.results.length; i++)
RECURSIVE OnResultLoop(_, _, _)
OnResultLoop(acc, results, k) ==
    IF k > Len(results) THEN acc
    ELSE OnResultLoop(OnResultStep(acc, results[k]), results, k + 1)

\* event.results holds the results so far and event.resultIndex is the first
\* one that changed; the results before it are given as "bom dia".
Events ==
    {e \in UNION {[resultIndex : 1..n, results : [1..n -> Transcripts]] :
                      n \in 1..MaxResults} :
        \A k \in 1..(e.resultIndex - 1) : e.results[k] = "bom dia"}

\* A result event is delivered to the handler of a recognition instance.
RecognitionResult(event) ==
    /\ called' = "none"
    /\ \E i \in Ids : sessions[i].recognition \in {"created", "running"}
    /\ LET out == OnResultLoop([profiles |-> profiles, toasts |-> <<>>],
                               event.results, event.resultIndex)
       IN /\ profiles' = out.profiles
          /\ toasts' = out.toasts
    /\ UNCHANGED <<apiKey, speechSupported, now, hookState, sessions, nextId>>

Next ==
    \/ Tick
    \/ \E k \in Keys : SetApiKey(k)
    \/ \E e \in BOOLEAN : StartRecording(e)
    \/ \E i \in Ids, b \in BOOLEAN : PromptSettles(i, b)
    \/ \E i \in Ids, b \in BOOLEAN : MicSettles(i, b)
    \/ StopRecording
    \/ PauseRecording
    \/ ResumeRecording
    \/ \E i \in Ids : OnStop(i)
    \/ \E i \in Ids, o \in FetchOutcomes : FetchSettles(i, o)
    \/ \E i \in Ids : \E body \in Bodies(i), t \in BOOLEAN : JsonSettles(i, body, t)

Spec == Init /\ [][Next]_vars

\* The transcription handler's awaits settle: the HTTP request completes or
\* fails, and the body is read or fails to parse.
FairSpec ==
    /\ Spec
    /\ \A i \in Ids :
        /\ WF_vars(\E o \in FetchOutcomes : FetchSettles(i, o))
        /\ WF_vars(\E body \in Bodies(i), t \in BOOLEAN : JsonSettles(i, body, t))

\* The live path.  The handler recognition.onresult is attached to every
\* recognition instance startRecording creates; here result events are
\* delivered to it, between the lifecycle operations.  The registry is read
\* and written by startRecording and by this handler only, so the clock and
\* the HTTP steps of the transcription handler are left to Spec.
NextLive ==
    \/ \E k \in Keys : SetApiKey(k)
    \/ \E e \in BOOLEAN : StartRecording(e)
    \/ \E i \in Ids, b \in BOOLEAN : PromptSettles(i, b)
    \/ \E i \in Ids, b \in BOOLEAN : MicSettles(i, b)
    \/ StopRecording
    \/ PauseRecording
    \/ ResumeRecording
    \/ \E i \in Ids : OnStop(i)
    \/ \E e \in Events : RecognitionResult(e)

SpecLive == Init /\ [][NextLive]_vars

\* The hook with one more startRecording call, so that the requests of two
\* stopped recordings can be in flight together.
NextOverlap ==
    \/ Tick
    \/ \E k \in Keys : SetApiKey(k)
    \/ \E e \in BOOLEAN : StartRecordingWithin(MaxSessions + 1, e)
    \/ \E i \in Ids, b \in BOOLEAN : PromptSettles(i, b)
    \/ \E i \in Ids, b \in BOOLEAN : MicSettles(i, b)
    \/ StopRecording
    \/ PauseRecording
    \/ ResumeRecording
    \/ \E i \in Ids : OnStop(i)
    \/ \E i \in Ids, o \in FetchOutcomes : FetchSettles(i, o)
    \/ \E i \in Ids : \E body \in Bodies(i), t \in BOOLEAN : JsonSettles(i, body, t)

SpecOverlap == Init /\ [][NextOverlap]_vars

\* ================================================================ claims
\* The stop event of recorder i is handled in this step.
StopHandled(i) == sessions[i].onstop = "queued" /\ sessions'[i].onstop # "queued"

\* Recorders that are recording or paused, and listeners that are running.
ActiveRecorders == {i \in Ids : sessions[i].recorder \in {"recording", "paused"}}
ActiveListeners == {i \in Ids : sessions[i].recognition = "running"}

\* C1: a recording started from idle (credential present, microphone granted)
\* and stopped at least 100 ms after it started has its stop handler issue the
\* transcription request: isTranscribing becomes true and the fetch is pending.
C1_LongRecordingIsTranscribed ==
    [][\A i \in Ids :
          (/\ StopHandled(i)
           /\ sessions[i].fromIdle
           /\ sessions[i].stoppedAt - sessions[i].startedAt >= MinDurationMs)
          => (isTranscribing' /\ sessions'[i].onstop = "fetch")]_vars

\* C2: startRecording called with an empty credential requests no microphone,
\* creates no recorder, leaves the registry and the hook's state alone and
\* emits exactly one error notification.
C2_NoCredentialStart ==
    [][(called' = "startRecording" /\ apiKey = NoKey)
          => (/\ UNCHANGED <<sessions, nextId, profiles, hookState>>
              /\ toasts' = <<ToastNoKey>>)]_vars

\* startRecording has just been refused for want of a credential, during a recording.
C2_Witness ==
    /\ called = "startRecording"
    /\ apiKey = NoKey
    /\ toasts = <<ToastNoKey>>
    /\ isRecording
    /\ \A i \in Ids : sessions[i].call \in {"none", "returned"}

\* C3: a stop handler that runs less than 100 ms after its recording started
\* issues no request and does not touch isTranscribing; it only emits the
\* too-short notification.
C3_ShortRecordingNeverTranscribed ==
    [][\A i \in Ids :
          (StopHandled(i) /\ now - sessions[i].startedAt < MinDurationMs)
          => (/\ sessions'[i].onstop = "done"
              /\ toasts' = <<ToastShort>>
              /\ UNCHANGED isTranscribing)]_vars

\* C4: at most one media recorder is recording or paused and at most one
\* live-recognition instance is running.
C4_AtMostOneActive ==
    /\ Cardinality(ActiveRecorders) <= 1
    /\ Cardinality(ActiveListeners) <= 1

\* C5: pauseRecording without a held recorder in state "recording", and
\* resumeRecording without a held recorder in state "paused", change nothing of
\* the hook's state or of the recorders and listeners, and notify nothing.
C5_InvalidPauseResumeIsNoOp ==
    [][(\/ /\ called' = "pauseRecording"
           /\ ~(mediaRecorder # Null /\ sessions[mediaRecorder].recorder = "recording")
        \/ /\ called' = "resumeRecording"
           /\ ~(mediaRecorder # Null /\ sessions[mediaRecorder].recorder = "paused"))
          => (UNCHANGED <<hookState, sessions, profiles>> /\ toasts' = <<>>)]_vars

\* pauseRecording has just been called on a recorder that was already paused.
C5_Witness ==
    /\ called = "pauseRecording"
    /\ toasts = <<>>
    /\ mediaRecorder # Null
    /\ sessions[mediaRecorder].recorder = "paused"
    /\ isPaused
\* The transcription handler of recorder i ends in this step, having read the
\* body of a response whose status was not a success.
HttpErrorHandled(i) ==
    /\ sessions[i].onstop = "json"
    /\ ~sessions[i].responseOk
    /\ sessions'[i].onstop = "done"

\* C6: when the request completes with a non-success status, isTranscribing
\* returns to false, transcriptionSegments keeps its value, and the error
\* notification carries the server's error.message or the generic failure text.
C6_HttpErrorReported ==
    [][\A i \in Ids :
          HttpErrorHandled(i)
          => (/\ ~isTranscribing'
              /\ UNCHANGED transcriptionSegments
              /\ toasts' \in {<<ToastTranscriptionError(ServerMessage)>>,
                              <<ToastTranscriptionError(GenericFailure)>>})]_vars

\* The transcription handler of recorder i has set isTranscribing and not yet ended.
Transcribing(i) == sessions[i].onstop \in {"fetch", "json"}

\* C7: a stop handler that has set isTranscribing to true does not stay in
\* progress for ever, and the step in which it ends sets isTranscribing to
\* false, whatever the outcome.
C7_TranscribingFlagCleared ==
    /\ [][\A i \in Ids :
            (Transcribing(i) /\ ~Transcribing(i)')
            => (sessions'[i].onstop = "done" /\ ~isTranscribing')]_vars
    /\ \A i \in Ids : []<>(~Transcribing(i))

\* A handler has just ended because the result-mapping function threw.
C7_Witness ==
    /\ \E i \in Ids : sessions[i].onstop = "done"
    /\ toasts = <<ToastTranscriptionError(MappingMessage)>>
    /\ ~isTranscribing

\* C8: stopRecording with a held recorder stops it, stops the tracks of its
\* stream, leaves no listener of it running (the held one is stopped) and resets
\* isRecording, isPaused, the held recorder, the held recognition instance and
\* the start timestamp; without a held recorder it changes nothing.
C8_StopResetsSession ==
    [][called' = "stopRecording"
          => IF mediaRecorder # Null
             THEN /\ sessions'[mediaRecorder].recorder = "inactive"
                  /\ sessions'[mediaRecorder].stream = "stopped"
                  /\ sessions'[mediaRecorder].recognition # "running"
                  /\ speechRecognition # Null
                        => sessions'[speechRecognition].recognition = "stopped"
                  /\ ~isRecording'
                  /\ ~isPaused'
                  /\ mediaRecorder' = Null
                  /\ speechRecognition' = Null
                  /\ recordingStartTime' = Null
             ELSE UNCHANGED <<hookState, sessions, profiles, nextId>>]_vars

\* stopRecording has just stopped the held recorder and the tracks of its stream.
C8_Witness ==
    /\ called = "stopRecording"
    /\ toasts = <<>>
    /\ \E i \in Ids : /\ sessions[i].onstop = "queued"
                       /\ sessions[i].recorder = "inactive"
                       /\ sessions[i].stream = "stopped"
    /\ ~isRecording
    /\ mediaRecorder = Null
    /\ recordingStartTime = Null

\* The places of the new-participant notifications among the last step's.
NewParticipantToasts ==
    {k \in 1..Len(toasts) : toasts[k].title = "Novo participante identificado"}

\* C9: the registry never holds two profiles of one name; a step adds profiles
\* only for names that were not registered, and emits the new-participant
\* notifications of exactly the profiles it adds.
C9_OneProfilePerName ==
    /\ [](\A j, k \in 1..Len(profiles) :
              profiles[j].name = profiles[k].name => j = k)
    /\ [][IF Len(profiles') > Len(profiles)
           THEN /\ SubSeq(profiles', 1, Len(profiles)) = profiles
                /\ \A k \in (Len(profiles) + 1)..Len(profiles') :
                       ~Registered(profiles, profiles'[k].name)
                /\ toasts' = [k \in 1..(Len(profiles') - Len(profiles)) |->
                                 ToastNewParticipant(profiles'[Len(profiles) + k].name)]
           ELSE NewParticipantToasts' = {}]_vars

\* A result event has just added Bia while Ana was registered, with two
\* sessions started and the recording paused.
C9_Witness ==
    /\ Len(profiles) = 2
    /\ profiles[1].name = "Ana"
    /\ toasts = <<ToastNewParticipant("Bia")>>
    /\ nextId > 2
    /\ isPaused

\* C10: where speech recognition is supported, the listener of the held
\* recorder is running whenever the session is recording and not paused.
C10_ListenerRunsWhileRecording ==
    (speechSupported /\ isRecording /\ ~isPaused /\ mediaRecorder # Null)
        => sessions[mediaRecorder].recognition = "running"

\* The call of session i returns in this step, its getUserMedia having settled.
MicSettled(i) == sessions[i].call = "mic" /\ sessions'[i].call = "returned"

\* C11: without a speech-recognition constructor, startRecording with a
\* credential and a granted microphone still starts the recorder and ends with
\* isRecording = true and no error notification.
C11_RecordsWithoutSpeechRecognition ==
    [][\A i \in Ids :
          (MicSettled(i) /\ ~speechSupported /\ sessions'[i].stream = "live")
          => (/\ sessions'[i].recorder = "recording"
              /\ isRecording'
              /\ toasts' = <<>>)]_vars

\* C12: when getUserMedia is rejected, the error notification is emitted,
\* isRecording, isPaused, the held recorder, the start timestamp, isTranscribing
\* and transcriptionSegments are unchanged, and no recorder has been started.
C12_MicrophoneRejected ==
    [][\A i \in Ids :
          (MicSettled(i) /\ sessions'[i].stream = "none")
          => (/\ toasts' = <<ToastMic>>
              /\ UNCHANGED hookState
              /\ sessions'[i].recorder = "none"
              /\ \A j \in Ids \ {i} : sessions'[j] = sessions[j])]_vars

\* A call has just failed for want of the microphone while an earlier
\* recording goes on, paused.
C12_Witness ==
    /\ toasts = <<ToastMic>>
    /\ called = "none"
    /\ isRecording /\ isPaused
    /\ mediaRecorder = 1
    /\ sessions[2].call = "returned"
    /\ sessions[2].stream = "none"
    /\ sessions[2].recorder = "none"

\* The places the transcription handler can be at after a step that found it at `pc`.
HandlerMoves(pc) == IF pc = "fetch" THEN {"fetch", "json", "done"} ELSE {"json", "done"}

ProfilesKept ==
    /\ Len(profiles) <= Len(profiles')
    /\ SubSeq(profiles', 1, Len(profiles)) = profiles

\* startRecording passes the credential check with identification enabled.
IdentifiedStart ==
    /\ called' = "startRecording"
    /\ apiKey # NoKey
    /\ sessions'[nextId].call = "prompt"

C15_FlagsConsistent ==
    /\ isPaused => isRecording
    /\ isRecording <=> mediaRecorder # Null
    /\ isPaused <=> (mediaRecorder # Null /\ sessions[mediaRecorder].recorder = "paused")

\* The second recorder is held and paused while the first, never stopped, is
\* still recording: the flags follow the held recorder.
C15_Witness ==
    /\ isRecording
    /\ isPaused
    /\ mediaRecorder = 2
    /\ sessions[2].recorder = "paused"
    /\ sessions[1].recorder = "recording"

\* No recorder is held and no startRecording call is awaiting the prompt or the
\* microphone.
Idle ==
    /\ ~isRecording
    /\ mediaRecorder = Null
    /\ \A i \in Ids : sessions[i].call \notin {"prompt", "mic"}

\* C16: whenever the hook is idle, no stream it acquired has a live track and no
\* recorder it created is recording or paused.
C16_IdleHoldsNoResource ==
    Idle => \A i \in Ids : /\ sessions[i].stream # "live"
                            /\ sessions[i].recorder \notin {"recording", "paused"}

\* C17: isTranscribing is true in every state in which a transcription request
\* is in flight, also when the requests of two recordings overlap.
C17_TranscribingWhileInFlight ==
    (\E i \in Ids : Transcribing(i)) => isTranscribing

\* The handler of recorder i ends in this step with a successful transcription.
Succeeds(i) ==
    /\ sessions[i].onstop = "json"
    /\ sessions'[i].onstop = "done"
    /\ toasts' = <<ToastDone>>

\* transcriptionSegments holds the result of a recording stopped after recorder i.
HoldsLaterResult(i) ==
    /\ transcriptionSegments # <<>>
    /\ sessions[transcriptionSegments[1].text].stopOrder > sessions[i].stopOrder

\* C18: a response that arrives for an earlier recording does not overwrite the
\* segments of a recording stopped later, so that once the overlapping requests
\* have all succeeded the segments are those of the last recording stopped.
C18_LateResponseKeepsLaterSegments ==
    [][\A i \in Ids :
          (Succeeds(i) /\ HoldsLaterResult(i)) => UNCHANGED transcriptionSegments]_vars

\* C19: a startRecording call that was awaiting the prompt or the microphone
\* when stopRecording stopped the recording does not begin recording when its
\* wait ends: after stopRecording the hook records again only by a new call.
C19_StopCancelsPendingStart ==
    [][\A i \in Ids :
          (MicSettled(i) /\ sessions[i].overtaken)
          => ~(isRecording' /\ sessions'[i].recorder = "recording")]_vars
====
